---- MODULE Spec2Model ----
(***************************************************************************)
(* Model of the auto-scaling part of intelliscalesim:                      *)
(*   - backend/autoscaler_engine.py : check_and_scale, run_autoscaler      *)
(*   - backend/routers/auto_scaling.py : the in-memory policy store and    *)
(*     its create / update / start / stop / delete handlers                *)
(*   - backend/routers/load_testing.py : run_load_test, send_request,      *)
(*     LoadTestResult and get_test_results over the dict test_results      *)
(* The engine reads its policies from the scaling_policies table through   *)
(* SQLAlchemy; the router keeps its own dictionary policies_db.  The two   *)
(* stores are distinct objects in the code and are distinct variables here.*)
(***************************************************************************)
EXTENDS Integers, Sequences, FiniteSets, TLC

VARIABLES
    scaling_policies,  \* rows of table scaling_policies (models/auto_scaling.py)
    containers,        \* containers known to the docker daemon
    scaling_events,    \* rows of table scaling_events, in insertion order
    pc,                \* position of run_autoscaler
    policies,          \* run_autoscaler's local list `policies` (ids)
    idx,               \* position of the for loop in `policies`
    session_ok,        \* FALSE once a commit of the current db session has failed
    last,              \* what the most recent check_and_scale call did
    since_scale,       \* seconds since a policy's last executed scaling action
    since_check,       \* seconds since a policy's last check_and_scale call
    changes,           \* per policy: ticks that changed its running replica set
    nticks,            \* number of check_and_scale calls made so far
    policies_db,       \* routers/auto_scaling.py: the dict policies_db
    resp,              \* outcome of the most recent router call
    test_results,      \* routers/load_testing.py: the dict test_results
    lt_pc,             \* position of the run_load_test call
    request,           \* the request dict of the run_load_test call
    endpoint,          \* how the tested container answers
    now,               \* wall clock, in ticks of 0.01 s
    test_result,       \* the LoadTestResult of the run
    request_idx,       \* run_load_test's local request_idx
    expected_request_count, \* run_load_test's local expected_request_count
    tasks,             \* len(tasks): coroutines created and not yet awaited
    in_flight,         \* requests sent by a gather and not yet completed
    batch,             \* the gather in progress: ticks since it sent its requests
    sent,              \* what the run has sent so far
    lt_resp,           \* outcome of the most recent load-testing call
    other_run          \* a second run_load_test call, running beside the first

engineVars == <<scaling_policies, containers, scaling_events, pc, policies, idx,
                session_ok, last, since_scale, since_check, changes, nticks>>
routerVars == <<policies_db, resp>>
loadVars == <<test_results, lt_pc, request, endpoint, now, test_result, request_idx,
              expected_request_count, tasks, in_flight, batch, sent, lt_resp,
              other_run>>
vars == <<scaling_policies, containers, scaling_events, pc, policies, idx,
          session_ok, last, since_scale, since_check, changes, nticks, policies_db,
          resp,
          test_results, lt_pc, request, endpoint, now, test_result, request_idx,
          expected_request_count, tasks, in_flight, batch, sent, lt_resp,
          other_run>>

-----------------------------------------------------------------------------
(* Bounds of the model *)

MaxTicks == 3
CooldownPeriod == 60
MaxPolicies == 2

(* Program constants *)

DefaultCheckInterval == 30
OuterSleepSeconds == 10
DefaultCpuUp == 80
DefaultCpuDown == 30
DefaultMemUp == 85
DefaultMemDown == 40
DefaultTargetCpu == 70
DefaultTargetMemory == 75

MaxRequests == 4

\* load_testing.py measures time in seconds; a tick here is the 0.01 s of the
\* scheduling sleep (line 161), the client's timeout is 30.0 s (line 140), and
\* elapsed times are recorded in milliseconds (line 191)
TicksPerSecond == 100
SleepTicks == 1
TimeoutTicks == 3000
MsPerTick == 10

PolicyIds == {1, 2}

CpuReadings == {20, 30, 80, 85}
MemReadings == {20, 40, 85, 90}

-----------------------------------------------------------------------------
(* Names.  A container name is a sequence of tokens; `in` on Python        *)
(* strings is the substring test.                                          *)

Digits == <<"0", "1", "2", "3", "4", "5", "6", "7", "8", "9">>

RECURSIVE ToStr(_)
ToStr(n) ==
    IF n < 10 THEN <<Digits[n + 1]>>
    ELSE ToStr(n \div 10) \o <<Digits[(n % 10) + 1]>>

Contains(name, sub) ==
    \E i \in 0..(Len(name) - Len(sub)) : SubSeq(name, i + 1, i + Len(sub)) = sub

ContainerIdOf(p) == IF p = 1 THEN <<"w">> ELSE <<"w", "a">>

ReplicaName(pol, current_replicas) ==
    pol.container_id \o <<"-replica-">> \o ToStr(current_replicas + 1)

-----------------------------------------------------------------------------
(* check_and_scale: the pure parts *)

Matching(pol, cs) == {c \in cs : c.running /\ Contains(c.name, pol.container_id)}

CurrentReplicas(pol, cs) == Cardinality(Matching(pol, cs))

ScaleUpBreach(pol, cpu, mem) ==
    (cpu > pol.cpu_scale_up_threshold) \/ (mem > pol.memory_scale_up_threshold)

ScaleDownBreach_Either(pol, cpu, mem) ==
    (cpu < pol.cpu_scale_down_threshold) \/ (mem < pol.memory_scale_down_threshold)

ScaleDownBreach(pol, cpu, mem) ==
    (cpu < pol.cpu_scale_down_threshold) /\ (mem < pol.memory_scale_down_threshold)

CanScaleUp_Inclusive(pol, current_replicas) == current_replicas <= pol.max_replicas

CanScaleUp(pol, current_replicas) == current_replicas < pol.max_replicas

CanScaleDown(pol, current_replicas) == current_replicas > pol.min_replicas

ScaleUpReason_CpuOnly(pol, cpu) == "cpu"

ScaleUpReason(pol, cpu) ==
    IF cpu > pol.cpu_scale_up_threshold THEN "cpu" ELSE "memory"

ScaleDownReason == "cpu_memory_low"

ScaleUpEvent(pol, reason, current_replicas) ==
    [policy_id |-> pol.id, event_type |-> "scale_up", reason |-> reason,
     replicas_before |-> current_replicas, replicas_after |-> current_replicas + 1]

ScaleDownEvent_SameCount(pol, current_replicas) ==
    [policy_id |-> pol.id, event_type |-> "scale_down", reason |-> "cpu_memory_low",
     replicas_before |-> current_replicas, replicas_after |-> current_replicas]

ScaleDownEvent(pol, current_replicas) ==
    [policy_id |-> pol.id, event_type |-> "scale_down", reason |-> ScaleDownReason,
     replicas_before |-> current_replicas, replicas_after |-> current_replicas - 1]

Decision_Cooldown(pol, cpu, mem, current_replicas) ==
    IF since_scale[pol.id] # -1 /\ since_scale[pol.id] < CooldownPeriod THEN "none"
    ELSE IF ScaleUpBreach(pol, cpu, mem)
    THEN (IF CanScaleUp(pol, current_replicas) THEN "scale_up" ELSE "none")
    ELSE IF ScaleDownBreach(pol, cpu, mem)
    THEN (IF CanScaleDown(pol, current_replicas) THEN "scale_down" ELSE "none")
    ELSE "none"

\* The branch of check_and_scale a reading leads to.
Decision(pol, cpu, mem, current_replicas) ==
    IF ScaleUpBreach(pol, cpu, mem)
    THEN (IF CanScaleUp(pol, current_replicas) THEN "scale_up" ELSE "none")
    ELSE IF ScaleDownBreach(pol, cpu, mem)
    THEN (IF CanScaleDown(pol, current_replicas) THEN "scale_down" ELSE "none")
    ELSE "none"

MaxCreated(cs) == IF cs = {} THEN 0 ELSE CHOOSE m \in {c.created : c \in cs} :
                                            \A c \in cs : c.created <= m

\* sorted(..., key=Created)[-1]
Newest(cs) == CHOOSE c \in cs : \A d \in cs : d.created <= c.created

-----------------------------------------------------------------------------
(* check_and_scale: one call, with the outcomes of the docker and database *)
(* calls it makes chosen by the environment.                               *)

NoTick == [policy_id |-> 0, polled |-> FALSE, cpu |-> 0, memory |-> 0, replicas |-> 0,
           decision |-> "none", runtime |-> "none", recorded |-> FALSE,
           since |-> -1, gap |-> -1, before |-> 0, after |-> 0,
           reason |-> "none", repeat |-> FALSE, prev_decision |-> "none",
           prev_reason |-> "none"]

\* the reason a call that took branch `decision` gives to its event (lines 47, 76)
ReasonOf(pol, cpu, decision) ==
    IF decision = "scale_up" THEN ScaleUpReason(pol, cpu)
    ELSE IF decision = "scale_down" THEN ScaleDownReason
    ELSE "none"

\* whether a polled call read the same policy, metrics and replica count as the
\* call before it
SameInputs(pol, polled, cpu, mem, n) ==
    /\ polled
    /\ last.polled
    /\ last.policy_id = pol.id
    /\ last.cpu = cpu
    /\ last.memory = mem
    /\ last.replicas = n

TickRecord(pol, polled, cpu, mem, n, decision, runtime, recorded, cs) ==
    [policy_id |-> pol.id, polled |-> polled, cpu |-> cpu, memory |-> mem,
     replicas |-> n, decision |-> decision, runtime |-> runtime,
     recorded |-> recorded, since |-> since_scale[pol.id],
     gap |-> since_check[pol.id],
     before |-> CurrentReplicas(pol, containers), after |-> CurrentReplicas(pol, cs),
     reason |-> ReasonOf(pol, cpu, decision),
     repeat |-> SameInputs(pol, polled, cpu, mem, n),
     prev_decision |-> IF SameInputs(pol, polled, cpu, mem, n) THEN last.decision
                       ELSE "none",
     prev_reason |-> IF SameInputs(pol, polled, cpu, mem, n) THEN last.reason
                     ELSE "none"]

\* What a tick leaves behind: the daemon's containers, the event table, the session.
Finish(pol, cs, evs, sess, rec) ==
    /\ containers' = cs
    /\ scaling_events' = evs
    /\ session_ok' = (session_ok /\ sess)
    /\ last' = rec
    /\ since_scale' = IF rec.runtime = "ok"
                      THEN [since_scale EXCEPT ![pol.id] = 0] ELSE since_scale
    /\ since_check' = [since_check EXCEPT ![pol.id] = 0]
    /\ changes' = IF CurrentReplicas(pol, cs) # CurrentReplicas(pol, containers)
                  THEN [changes EXCEPT ![pol.id] = @ + 1] ELSE changes

Persist_AfterStop(evs, event, runtime, committed) ==
    IF runtime = "partial" \/ (runtime = "ok" /\ committed) THEN Append(evs, event)
    ELSE evs

\* lines 46-56 and 72-81: the event is built, added and committed only after the
\* runtime calls above it have returned
Persist_BeforeCall(evs, event, runtime, committed) ==
    IF runtime = "ok" => committed THEN Append(evs, event) ELSE evs

Persist(evs, event, runtime, committed) ==
    IF runtime = "ok" /\ committed THEN Append(evs, event) ELSE evs

\* db.commit() returns or raises
CommitOutcomes == {TRUE, FALSE}

\* lines 12-13: an inactive policy returns at once
TickInactive(pol) ==
    /\ ~pol.is_active
    /\ Finish(pol, containers, scaling_events, session_ok,
              TickRecord(pol, FALSE, 0, 0, 0, "none", "none", FALSE, containers))

\* client.containers.get(...) or container.stats(...) raises, or the stats
\* of a container that is not running lack the keys read at lines 21-26
BaseRunning(pol) == \E c \in containers : c.name = pol.container_id /\ c.running

TickPollFails(pol) ==
    /\ pol.is_active
    /\ Finish(pol, containers, scaling_events, session_ok,
              TickRecord(pol, FALSE, 0, 0, 0, "none", "none", FALSE, containers))

\* lines 36-56
TickScaleUp(pol, cpu, mem, n) ==
    LET name == ReplicaName(pol, n)
        taken == \E c \in containers : c.name = name
        started == containers \cup
                     {[name |-> name, created |-> MaxCreated(containers) + 1,
                       running |-> TRUE]}
        created == containers \cup
                     {[name |-> name, created |-> MaxCreated(containers) + 1,
                       running |-> FALSE]}
        event == ScaleUpEvent(pol, ScaleUpReason(pol, cpu), n)
    IN  \/ \* containers.run raises before a container exists (409 on a taken name)
           Finish(pol, containers, Persist(scaling_events, event, "failed", FALSE),
                  session_ok,
                  TickRecord(pol, TRUE, cpu, mem, n, "scale_up", "failed", FALSE,
                             containers))
        \/ \* the container is created and its start raises
           /\ ~taken
           /\ Finish(pol, created, Persist(scaling_events, event, "partial", FALSE),
                     session_ok,
                     TickRecord(pol, TRUE, cpu, mem, n, "scale_up", "partial", FALSE,
                                created))
        \/ \* the replica runs; the event is added and committed
           /\ ~taken
           /\ \E committed \in CommitOutcomes :
                Finish(pol, started, Persist(scaling_events, event, "ok", committed),
                       committed,
                       TickRecord(pol, TRUE, cpu, mem, n, "scale_up", "ok", committed,
                                  started))

\* lines 62-81
TickScaleDown(pol, cpu, mem, n) ==
    LET victim == Newest(Matching(pol, containers))
        stopped == (containers \ {victim}) \cup {[victim EXCEPT !.running = FALSE]}
        removed == containers \ {victim}
        event == ScaleDownEvent(pol, n)
    IN  IF Matching(pol, containers) = {}
        THEN Finish(pol, containers, scaling_events, session_ok,
                    TickRecord(pol, TRUE, cpu, mem, n, "none", "none", FALSE,
                               containers))
        ELSE \/ \* stop() raises
                Finish(pol, containers, Persist(scaling_events, event, "failed", FALSE),
                       session_ok,
                       TickRecord(pol, TRUE, cpu, mem, n, "scale_down", "failed", FALSE,
                                  containers))
             \/ \* stop() returns and remove() raises
                Finish(pol, stopped, Persist(scaling_events, event, "partial", FALSE),
                       session_ok,
                       TickRecord(pol, TRUE, cpu, mem, n, "scale_down", "partial", FALSE,
                                  stopped))
             \/ \* both return; the event is added and committed
                \E committed \in CommitOutcomes :
                   Finish(pol, removed, Persist(scaling_events, event, "ok", committed),
                          committed,
                          TickRecord(pol, TRUE, cpu, mem, n, "scale_down", "ok",
                                     committed, removed))

TickPolled(pol, cpu, mem) ==
    LET n == CurrentReplicas(pol, containers)
        d == Decision(pol, cpu, mem, n)
    IN  /\ pol.is_active
        /\ BaseRunning(pol)
        /\ CASE d = "scale_up" -> TickScaleUp(pol, cpu, mem, n)
             [] d = "scale_down" -> TickScaleDown(pol, cpu, mem, n)
             [] OTHER -> Finish(pol, containers, scaling_events, session_ok,
                                TickRecord(pol, TRUE, cpu, mem, n, "none", "none",
                                           FALSE, containers))

check_and_scale(pol) ==
    \/ TickInactive(pol)
    \/ TickPollFails(pol)
    \/ \E cpu \in CpuReadings, mem \in MemReadings : TickPolled(pol, cpu, mem)

-----------------------------------------------------------------------------
(* run_autoscaler *)

RECURSIVE SortedIds(_)
SortedIds(S) ==
    IF S = {} THEN <<>>
    ELSE LET m == CHOOSE x \in S : \A y \in S : x <= y
         IN  <<m>> \o SortedIds(S \ {m})

ActivePolicies == SortedIds({p \in PolicyIds : scaling_policies[p].is_active})

\* the sleeps of one pass of the loop over every policy (lines 97 and 102);
\* the clocks below stop counting there
LongestRound == Cardinality(PolicyIds) * DefaultCheckInterval + OuterSleepSeconds

\* time passes for every policy: seconds since its last scaling action and
\* since its last check
Elapse(d) ==
    /\ since_scale' = [p \in PolicyIds |->
                         IF since_scale[p] = -1 THEN -1
                         ELSE IF since_scale[p] + d > CooldownPeriod THEN CooldownPeriod
                         ELSE since_scale[p] + d]
    /\ since_check' = [p \in PolicyIds |->
                         IF since_check[p] = -1 THEN -1
                         ELSE IF since_check[p] + d > LongestRound THEN LongestRound
                         ELSE since_check[p] + d]

\* lines 89-93: a new session, and the query for the active policies
LoopQuery ==
    /\ pc = "query"
    /\ policies' = ActivePolicies
    /\ idx' = 1
    /\ session_ok' = TRUE
    /\ pc' = IF ActivePolicies = <<>> THEN "outer_sleep" ELSE "check"
    /\ UNCHANGED <<scaling_policies, containers, scaling_events, last, since_scale,
                   since_check, changes, nticks>>
    /\ UNCHANGED routerVars
    /\ UNCHANGED loadVars

\* line 96
LoopCheck ==
    /\ pc = "check"
    /\ nticks < MaxTicks
    /\ check_and_scale(scaling_policies[policies[idx]])
    /\ nticks' = nticks + 1
    /\ pc' = "sleep"
    /\ UNCHANGED <<scaling_policies, policies, idx>>
    /\ UNCHANGED routerVars
    /\ UNCHANGED loadVars

\* line 97, and the step of the for loop
LoopSleep ==
    /\ pc = "sleep"
    /\ Elapse(scaling_policies[policies[idx]].check_interval_seconds)
    /\ idx' = idx + 1
    /\ pc' = IF idx + 1 > Len(policies) THEN "outer_sleep" ELSE "check"
    /\ UNCHANGED <<scaling_policies, containers, scaling_events, policies, session_ok,
                   last, changes, nticks>>
    /\ UNCHANGED routerVars
    /\ UNCHANGED loadVars

\* An exception that leaves run_autoscaler, which has a finally and no except:
\* the query of line 93 raises, or line 97 reads policy.check_interval_seconds
\* from a session whose commit failed (the attribute is expired and its reload
\* raises until the session is rolled back).
LoopCrash ==
    /\ \/ pc = "query"
       \/ pc = "sleep" /\ ~session_ok
    /\ pc' = "crashed"
    /\ UNCHANGED <<scaling_policies, containers, scaling_events, policies, idx,
                   session_ok, last, since_scale, since_check, changes, nticks>>
    /\ UNCHANGED routerVars
    /\ UNCHANGED loadVars

\* lines 99-102
LoopOuterSleep ==
    /\ pc = "outer_sleep"
    /\ Elapse(OuterSleepSeconds)
    /\ pc' = "query"
    /\ UNCHANGED <<scaling_policies, containers, scaling_events, policies, idx,
                   session_ok, last, changes, nticks>>
    /\ UNCHANGED routerVars
    /\ UNCHANGED loadVars

-----------------------------------------------------------------------------
(* routers/load_testing.py: the state before any run *)

NoTime == -1

NoLoadRequest == [container_name |-> "", total_requests |-> 0, concurrency |-> 0,
                  duration |-> 0]

\* LoadTestResult.__init__ (lines 19-31) and the start_time of line 118
NewResult(req, start_time) ==
    [container_name |-> req.container_name, total_requests |-> req.total_requests,
     concurrency |-> req.concurrency, duration |-> req.duration,
     start_time |-> start_time, end_time |-> NoTime,
     responses |-> <<>>, errors |-> <<>>, request_times |-> <<>>,
     request_count |-> 0, error_count |-> 0, success_count |-> 0]

NoLoadResponse == [op |-> "none", status |-> 0, test_id |-> <<>>, results |-> <<>>,
                   phase |-> "idle"]

Endpoints == {"any", "always_timeout"}

NoOtherRun == [pc |-> "idle", result |-> NewResult(NoLoadRequest, NoTime)]

LoadIdle ==
    /\ test_results = <<>>
    /\ lt_pc = "idle"
    /\ request = NoLoadRequest
    /\ endpoint = "any"
    /\ now = 0
    /\ test_result = NewResult(NoLoadRequest, NoTime)
    /\ request_idx = 0
    /\ expected_request_count = 0
    /\ tasks = 0
    /\ in_flight = 0
    /\ batch = 0
    /\ sent = [count |-> 0, longest |-> 0, at |-> NoTime]
    /\ lt_resp = NoLoadResponse
    /\ other_run = NoOtherRun

-----------------------------------------------------------------------------
(* The engine on its own *)

MinReplicasSet == {1, 2}
MaxReplicasSet == {2, 3}
CpuDownSet == {DefaultCpuDown, 90}

\* The table's columns carry no constraint, and nothing orders a row's thresholds:
\* policy 1 ranges over the replica bounds and over an ordered and an unordered
\* pair of cpu thresholds; policy 2, whose container_id contains policy 1's,
\* keeps the column defaults with max 2.
PolicyRows(p) ==
    [id : {p}, container_id : {ContainerIdOf(p)}, is_active : BOOLEAN,
     min_replicas : IF p = 1 THEN MinReplicasSet ELSE {1},
     max_replicas : IF p = 1 THEN MaxReplicasSet ELSE {2},
     cpu_scale_up_threshold : {DefaultCpuUp},
     cpu_scale_down_threshold : IF p = 1 THEN CpuDownSet ELSE {DefaultCpuDown},
     memory_scale_up_threshold : {DefaultMemUp},
     memory_scale_down_threshold : {DefaultMemDown},
     check_interval_seconds : {DefaultCheckInterval}]

EnginePoliciesInit ==
    /\ scaling_policies \in {f \in [PolicyIds -> UNION {PolicyRows(p) : p \in PolicyIds}] :
                               \A p \in PolicyIds : f[p] \in PolicyRows(p)}
    /\ containers = {[name |-> ContainerIdOf(p), created |-> p, running |-> TRUE] :
                       p \in PolicyIds}
    /\ scaling_events = <<>>
    /\ pc = "query"
    /\ policies = <<>>
    /\ idx = 1
    /\ session_ok = TRUE
    /\ last = NoTick
    /\ since_scale = [p \in PolicyIds |-> -1]
    /\ since_check = [p \in PolicyIds |-> -1]
    /\ changes = [p \in PolicyIds |-> 0]
    /\ nticks = 0

RouterIdle ==
    /\ policies_db = <<>>
    /\ resp = [op |-> "none", status |-> 0, policy_id |-> 0,
               req |-> [cpu_up |-> 0, cpu_down |-> 0, mem_up |-> 0, mem_down |-> 0,
                        min_replicas |-> 0, max_replicas |-> 0,
                        initial_replicas |-> 0]]

EngineNext ==
    \/ LoopQuery
    \/ LoopCheck
    \/ LoopSleep
    \/ LoopCrash
    \/ LoopOuterSleep

EngineInit == EnginePoliciesInit /\ RouterIdle /\ LoadIdle

EngineSpec == EngineInit /\ [][EngineNext]_vars

-----------------------------------------------------------------------------
(* routers/auto_scaling.py: the handlers over policies_db.  An optional    *)
(* query parameter is <<>> when absent (None) and <<v>> when given.        *)

None == <<>>
Some(v) == <<v>>

\* `if x:` on an optional number: absent and 0 are both false
Truthy(opt) == opt # None /\ opt[1] # 0

\* `if x is not None:`
IsNotNone(opt) == opt # None

HasKey(db, k) == k \in DOMAIN db

DictLen(db) == Cardinality(DOMAIN db)

DictSet(db, k, v) == [x \in (DOMAIN db) \cup {k} |-> IF x = k THEN v ELSE db[x]]

DictDel(db, k) == [x \in (DOMAIN db) \ {k} |-> db[x]]

ThresholdsValid_CpuOnly(cpu_up, cpu_down, mem_up, mem_down) == ~(cpu_down >= cpu_up)

\* lines 69-74: both orderings hold, or the call raises HTTPException(400)
ThresholdsValid(cpu_up, cpu_down, mem_up, mem_down) ==
    ~(cpu_down >= cpu_up) /\ ~(mem_down >= mem_up)

\* The request of the most recent call (the thresholds and replica bounds it
\* carried, 0 where it carried none) and the status it was answered with.
NoRequest == [cpu_up |-> 0, cpu_down |-> 0, mem_up |-> 0, mem_down |-> 0,
              min_replicas |-> 0, max_replicas |-> 0, initial_replicas |-> 0]

Response(op, status, policy_id, req) ==
    [op |-> op, status |-> status, policy_id |-> policy_id, req |-> req]

NewPolicy(id, req) ==
    [id |-> id, policy_name |-> req.policy_name, container_id |-> req.container_id,
     min_replicas |-> req.min_replicas, max_replicas |-> req.max_replicas,
     target_cpu |-> req.target_cpu,
     cpu_scale_up_threshold |-> req.cpu_up, cpu_scale_down_threshold |-> req.cpu_down,
     target_memory |-> req.target_memory,
     memory_scale_up_threshold |-> req.mem_up,
     memory_scale_down_threshold |-> req.mem_down,
     check_interval_seconds |-> req.check_interval_seconds, is_active |-> FALSE]

CreateMinSet == {1, 3}
CreateMaxSet == {2}
CreateInitialSet == {1, 5}
CreateCpuDownSet == {DefaultCpuDown, DefaultCpuUp}
CreateMemDownSet == {DefaultMemDown, DefaultMemUp}

\* the query parameters of a create call (lines 54-65)
CreateRequests ==
    [policy_name : {"web"}, container_id : {ContainerIdOf(1)},
     min_replicas : CreateMinSet, max_replicas : CreateMaxSet,
     initial_replicas : CreateInitialSet, target_cpu : {DefaultTargetCpu},
     cpu_up : {DefaultCpuUp}, cpu_down : CreateCpuDownSet,
     target_memory : {DefaultTargetMemory},
     mem_up : {DefaultMemUp}, mem_down : CreateMemDownSet,
     check_interval_seconds : {DefaultCheckInterval}]

\* what resp keeps of a request
Thresholds(req) ==
    [cpu_up |-> req.cpu_up, cpu_down |-> req.cpu_down, mem_up |-> req.mem_up,
     mem_down |-> req.mem_down, min_replicas |-> req.min_replicas,
     max_replicas |-> req.max_replicas, initial_replicas |-> req.initial_replicas]

\* lines 52-97
create_scaling_policy(req) ==
    LET ok == ThresholdsValid(req.cpu_up, req.cpu_down, req.mem_up, req.mem_down)
        policy_id == DictLen(policies_db) + 1
    IN  IF ~ok
        THEN /\ resp' = Response("create", 400, 0, Thresholds(req))
             /\ UNCHANGED policies_db
        ELSE /\ DictLen(policies_db) < MaxPolicies
             /\ policies_db' = DictSet(policies_db, policy_id, NewPolicy(policy_id, req))
             /\ resp' = Response("create", 200, policy_id, Thresholds(req))

Create ==
    /\ \E req \in CreateRequests : create_scaling_policy(req)
    /\ UNCHANGED engineVars
    /\ UNCHANGED loadVars

\* lines 131-148
Updated(policy, req) ==
    [policy EXCEPT
       !.policy_name = IF req.policy_name # None /\ req.policy_name[1] # ""
                       THEN req.policy_name[1] ELSE @,
       !.is_active = IF IsNotNone(req.is_active) THEN req.is_active[1] ELSE @,
       !.min_replicas = IF Truthy(req.min_replicas) THEN req.min_replicas[1] ELSE @,
       !.max_replicas = IF Truthy(req.max_replicas) THEN req.max_replicas[1] ELSE @,
       !.cpu_scale_up_threshold = IF Truthy(req.cpu_up) THEN req.cpu_up[1] ELSE @,
       !.cpu_scale_down_threshold = IF Truthy(req.cpu_down) THEN req.cpu_down[1] ELSE @,
       !.memory_scale_up_threshold = IF Truthy(req.mem_up) THEN req.mem_up[1] ELSE @,
       !.memory_scale_down_threshold =
           IF Truthy(req.mem_down) THEN req.mem_down[1] ELSE @,
       !.check_interval_seconds =
           IF Truthy(req.check_interval_seconds) THEN req.check_interval_seconds[1]
           ELSE @]

\* lines 112-151
update_scaling_policy(policy_id, req) ==
    IF ~HasKey(policies_db, policy_id)
    THEN /\ resp' = Response("update", 404, policy_id, NoRequest)
         /\ UNCHANGED policies_db
    ELSE /\ policies_db' =
              [policies_db EXCEPT ![policy_id] = Updated(policies_db[policy_id], req)]
         /\ resp' = Response("update", 200, policy_id, NoRequest)

UpdateMinSet == {None, Some(0), Some(3)}
UpdateMaxSet == {None}
UpdateCpuDownSet == {None, Some(90)}
UpdateMemDownSet == {None}

\* the query parameters of an update call (lines 115-123)
UpdateRequests ==
    [policy_name : {None}, is_active : {None, Some(TRUE), Some(FALSE)},
     min_replicas : UpdateMinSet, max_replicas : UpdateMaxSet,
     cpu_up : {None}, cpu_down : UpdateCpuDownSet,
     mem_up : {None}, mem_down : UpdateMemDownSet,
     check_interval_seconds : {None}]

Update ==
    /\ \E policy_id \in 1..MaxPolicies, req \in UpdateRequests :
          update_scaling_policy(policy_id, req)
    /\ UNCHANGED engineVars
    /\ UNCHANGED loadVars

\* lines 153-163
start_autoscaling(policy_id) ==
    IF ~HasKey(policies_db, policy_id)
    THEN /\ resp' = Response("start", 404, policy_id, NoRequest)
         /\ UNCHANGED policies_db
    ELSE /\ policies_db' = [policies_db EXCEPT ![policy_id].is_active = TRUE]
         /\ resp' = Response("start", 200, policy_id, NoRequest)

Start ==
    /\ \E policy_id \in 1..MaxPolicies : start_autoscaling(policy_id)
    /\ UNCHANGED engineVars
    /\ UNCHANGED loadVars

\* lines 165-175
stop_autoscaling(policy_id) ==
    IF ~HasKey(policies_db, policy_id)
    THEN /\ resp' = Response("stop", 404, policy_id, NoRequest)
         /\ UNCHANGED policies_db
    ELSE /\ policies_db' = [policies_db EXCEPT ![policy_id].is_active = FALSE]
         /\ resp' = Response("stop", 200, policy_id, NoRequest)

Stop ==
    /\ \E policy_id \in 1..MaxPolicies : stop_autoscaling(policy_id)
    /\ UNCHANGED engineVars
    /\ UNCHANGED loadVars

\* lines 185-194
delete_scaling_policy(policy_id) ==
    IF ~HasKey(policies_db, policy_id)
    THEN /\ resp' = Response("delete", 404, policy_id, NoRequest)
         /\ UNCHANGED policies_db
    ELSE /\ policies_db' = DictDel(policies_db, policy_id)
         /\ resp' = Response("delete", 200, policy_id, NoRequest)

Delete ==
    /\ \E policy_id \in 1..MaxPolicies : delete_scaling_policy(policy_id)
    /\ UNCHANGED engineVars
    /\ UNCHANGED loadVars

-----------------------------------------------------------------------------
(* The router on its own: the engine never runs (nothing starts            *)
(* run_autoscaler) and the handlers are called in any order.               *)

RouterStoreInit ==
    /\ policies_db = <<>>
    /\ resp = Response("none", 0, 0, NoRequest)

EngineIdle ==
    /\ scaling_policies = [p \in PolicyIds |->
          [id |-> p, container_id |-> ContainerIdOf(p), is_active |-> FALSE,
           min_replicas |-> 1, max_replicas |-> 2,
           cpu_scale_up_threshold |-> DefaultCpuUp,
           cpu_scale_down_threshold |-> DefaultCpuDown,
           memory_scale_up_threshold |-> DefaultMemUp,
           memory_scale_down_threshold |-> DefaultMemDown,
           check_interval_seconds |-> DefaultCheckInterval]]
    /\ containers = {[name |-> ContainerIdOf(p), created |-> p, running |-> TRUE] :
                       p \in PolicyIds}
    /\ scaling_events = <<>>
    /\ pc = "query"
    /\ policies = <<>>
    /\ idx = 1
    /\ session_ok = TRUE
    /\ last = NoTick
    /\ since_scale = [p \in PolicyIds |-> -1]
    /\ since_check = [p \in PolicyIds |-> -1]
    /\ changes = [p \in PolicyIds |-> 0]
    /\ nticks = 0

RouterNext ==
    \/ Create
    \/ Update
    \/ Start
    \/ Stop
    \/ Delete

RouterInit == RouterStoreInit /\ EngineIdle /\ LoadIdle

RouterSpec == RouterInit /\ [][RouterNext]_vars

-----------------------------------------------------------------------------
(* routers/load_testing.py: send_request and LoadTestResult.  An error     *)
(* message is a Python string; its characters are listed so that lower(),  *)
(* `in` and [:1] are computed on them.                                     *)

Chars(error) ==
    CASE error = "Timeout" -> <<"T", "i", "m", "e", "o", "u", "t">>
      [] error = "Connection Error" ->
           <<"C", "o", "n", "n", "e", "c", "t", "i", "o", "n", " ",
             "E", "r", "r", "o", "r">>
      [] error = "Server disconnected" ->
           <<"S", "e", "r", "v", "e", "r", " ",
             "d", "i", "s", "c", "o", "n", "n", "e", "c", "t", "e", "d">>
      [] OTHER -> <<>>

LowerChar(c) ==
    CASE c = "C" -> "c" [] c = "E" -> "e" [] c = "S" -> "s" [] c = "T" -> "t"
      [] OTHER -> c

Lower(cs) == [i \in 1..Len(cs) |-> LowerChar(cs[i])]

\* error[:1]
FirstChar(cs) == IF Len(cs) = 0 THEN <<>> ELSE SubSeq(cs, 1, 1)

Category_NoFallback(error) ==
    IF Contains(Lower(Chars(error)), <<"t", "i", "m", "e", "o", "u", "t">>)
    THEN "timeouts"
    ELSE IF Contains(Lower(Chars(error)),
                     <<"c", "o", "n", "n", "e", "c", "t", "i", "o", "n">>)
    THEN "connection_errors"
    ELSE IF Contains(FirstChar(Chars(error)), <<"5">>) THEN "server_errors"
    ELSE "none"

\* lines 60-68: the key of the breakdown an error is counted under
Category(error) ==
    IF Contains(Lower(Chars(error)), <<"t", "i", "m", "e", "o", "u", "t">>)
    THEN "timeouts"
    ELSE IF Contains(Lower(Chars(error)),
                     <<"c", "o", "n", "n", "e", "c", "t", "i", "o", "n">>)
    THEN "connection_errors"
    ELSE IF Contains(FirstChar(Chars(error)), <<"5">>) THEN "server_errors"
    ELSE "client_errors"

BreakdownKeys == {"timeouts", "connection_errors", "server_errors", "client_errors"}

\* LoadTestResult._error_breakdown (lines 57-69)
error_breakdown(result) ==
    [k \in BreakdownKeys |->
        Cardinality({i \in 1..Len(result.errors) : Category(result.errors[i]) = k})]

\* LoadTestResult.to_dict (lines 33-55), the fields that are counts or times:
\* total_time in ticks, requests_per_second and success_rate in hundredths
to_dict(result) ==
    LET total_time == IF result.start_time # NoTime /\ result.end_time # NoTime
                      THEN result.end_time - result.start_time ELSE 0
    IN  [container_name |-> result.container_name,
         total_requests |-> result.total_requests,
         concurrency |-> result.concurrency,
         duration |-> result.duration,
         success_count |-> result.success_count,
         error_count |-> result.error_count,
         total_time |-> total_time,
         requests_per_second |->
             IF total_time > 0
             THEN (result.success_count * TicksPerSecond * 100) \div total_time
             ELSE 0,
         success_rate |->
             IF result.total_requests > 0
             THEN (result.success_count * 100 * 100) \div result.total_requests
             ELSE 0,
         error_breakdown |-> error_breakdown(result)]

\* What the awaited client.get of one send_request call does: it returns a
\* response (whatever its status code: nothing calls raise_for_status), or raises
\* httpx.TimeoutException after the client's timeout, httpx.ConnectError, or
\* another exception whose str() is recorded.
ResponseLatencies == {0, 50}

Outcomes ==
    [kind : {"response"}, status : {200}, message : {""}, latency : ResponseLatencies]
    \cup [kind : {"response"}, status : {503}, message : {""}, latency : {0}]
    \cup [kind : {"timeout"}, status : {0}, message : {""}, latency : {TimeoutTicks}]
    \cup [kind : {"connect"}, status : {0}, message : {""}, latency : {0}]
    \cup [kind : {"other"}, status : {0},
          message : {"Server disconnected"}, latency : {0}]

EndpointOutcomes(ep) ==
    IF ep = "always_timeout" THEN {o \in Outcomes : o.kind = "timeout"} ELSE Outcomes

\* send_request (lines 186-210), from the return of client.get on
send_request(result, o) ==
    CASE o.kind = "response" ->
           [result EXCEPT !.request_times = Append(@, o.latency * MsPerTick),
                          !.success_count = @ + 1,
                          !.responses = Append(@, [status |-> o.status,
                                                   time |-> o.latency * MsPerTick])]
      [] o.kind = "timeout" ->
           [result EXCEPT !.error_count = @ + 1, !.errors = Append(@, "Timeout")]
      [] o.kind = "connect" ->
           [result EXCEPT !.error_count = @ + 1,
                          !.errors = Append(@, "Connection Error")]
      [] OTHER ->
           [result EXCEPT !.error_count = @ + 1, !.errors = Append(@, o.message)]

-----------------------------------------------------------------------------
(* routers/load_testing.py: run_load_test.  The handler is a coroutine: it *)
(* gives up control at its awaits (asyncio.sleep, asyncio.gather), and a   *)
(* step here runs from one await to the next.  send_request(...) at line   *)
(* 152 only creates a coroutine; its request is sent when gather runs it.  *)

GatherDue_Late(n, concurrency) == n > concurrency

\* line 156
GatherDue(n, concurrency) == n >= concurrency

\* line 171
TestKey(result) == <<result.container_name, result.start_time \div TicksPerSecond>>

Elapsed == now - test_result.start_time

\* line 145
LoopCond ==
    /\ request_idx < request.total_requests
    /\ Elapsed < request.duration * TicksPerSecond

ExpectedRequestCount_RoundUp ==
    (Elapsed * request.total_requests) \div (request.duration * TicksPerSecond) + 1

\* line 148
ExpectedRequestCount ==
    (Elapsed * request.total_requests) \div (request.duration * TicksPerSecond)

\* lines 151-158, up to the next gather or the end of the inner loop
RECURSIVE InnerLoop(_, _, _)
InnerLoop(expected, i, n) ==
    IF i < expected /\ i < request.total_requests
    THEN IF GatherDue(n + 1, request.concurrency)
         THEN [request_idx |-> i + 1, tasks |-> n + 1, gather |-> TRUE]
         ELSE InnerLoop(expected, i + 1, n + 1)
    ELSE [request_idx |-> i, tasks |-> n, gather |-> FALSE]

\* the inner loop runs until it awaits a gather (line 157) or the sleep (line 161)
Dispatch(expected) ==
    LET r == InnerLoop(expected, request_idx, tasks)
    IN  /\ request_idx' = r.request_idx
        /\ tasks' = r.tasks
        /\ IF r.gather
           THEN /\ in_flight' = r.tasks
                /\ sent' = [sent EXCEPT !.count = @ + r.tasks, !.at = Elapsed]
                /\ lt_pc' = "gather"
           ELSE /\ UNCHANGED <<in_flight, sent>>
                /\ lt_pc' = "sleep"

KnownContainers == {"web"}

ValidRequests ==
    [container_name : {"web"}, total_requests : 1..MaxRequests,
     concurrency : {1, 2}, duration : {1}]

InvalidRequests ==
    {[container_name |-> "", total_requests |-> 1, concurrency |-> 1, duration |-> 1],
     [container_name |-> "web", total_requests |-> 0, concurrency |-> 1, duration |-> 1],
     [container_name |-> "db", total_requests |-> 1, concurrency |-> 1, duration |-> 1]}

Scenario == [container_name |-> "web", total_requests |-> 50, concurrency |-> 10,
             duration |-> 5]

\* the requests tried against an endpoint
RunRequests(ep) ==
    IF ep = "always_timeout" THEN {Scenario} \cup InvalidRequests
    ELSE ValidRequests \cup InvalidRequests

\* lines 103-112: the status the parameters are refused with, 0 if they pass
Validate(req) ==
    IF req.container_name = "" THEN 400
    ELSE IF req.total_requests < 1 \/ req.duration < 1 \/ req.concurrency < 1 THEN 400
    ELSE 0

\* lines 100-143
RunStart ==
    /\ lt_pc = "idle"
    /\ \E req \in RunRequests(endpoint) :
         IF Validate(req) # 0
         THEN /\ lt_resp' = [NoLoadResponse EXCEPT !.op = "run",
                                                   !.status = Validate(req)]
              /\ UNCHANGED <<test_results, lt_pc, request, endpoint, now, test_result,
                             request_idx, expected_request_count, tasks, in_flight,
                             batch, sent>>
         ELSE IF req.container_name \notin KnownContainers
         THEN \* containers.get raises; the except of line 182 answers 500
              /\ lt_resp' = [NoLoadResponse EXCEPT !.op = "run", !.status = 500]
              /\ UNCHANGED <<test_results, lt_pc, request, endpoint, now, test_result,
                             request_idx, expected_request_count, tasks, in_flight,
                             batch, sent>>
         ELSE /\ request' = req
              /\ test_result' = NewResult(req, now)
              /\ request_idx' = 0
              /\ tasks' = 0
              /\ lt_pc' = "loop"
              /\ UNCHANGED <<test_results, endpoint, now, expected_request_count,
                             in_flight, batch, sent, lt_resp>>
    /\ UNCHANGED other_run
    /\ UNCHANGED engineVars
    /\ UNCHANGED routerVars

\* lines 145-161: one pass of the outer loop, as far as its next await
LoopIterate ==
    /\ lt_pc = "loop"
    /\ LoopCond
    /\ expected_request_count' = ExpectedRequestCount
    /\ Dispatch(ExpectedRequestCount)
    /\ UNCHANGED <<test_results, request, endpoint, now, test_result, batch, lt_resp>>
    /\ UNCHANGED other_run
    /\ UNCHANGED engineVars
    /\ UNCHANGED routerVars

\* lines 151-161: the inner loop goes on after the gather of line 157 returned
Resume ==
    /\ lt_pc = "inner"
    /\ Dispatch(expected_request_count)
    /\ UNCHANGED <<test_results, request, endpoint, now, test_result,
                   expected_request_count, batch, lt_resp>>
    /\ UNCHANGED other_run
    /\ UNCHANGED engineVars
    /\ UNCHANGED routerVars

\* line 161
Sleep ==
    /\ lt_pc = "sleep"
    /\ now' = now + SleepTicks
    /\ lt_pc' = "loop"
    /\ UNCHANGED <<test_results, request, endpoint, test_result, request_idx,
                   expected_request_count, tasks, in_flight, batch, sent, lt_resp>>
    /\ UNCHANGED other_run
    /\ UNCHANGED engineVars
    /\ UNCHANGED routerVars

\* lines 145, 164-165: the loop condition fails; the remaining tasks are gathered
LoopExit ==
    /\ lt_pc = "loop"
    /\ ~LoopCond
    /\ IF tasks > 0
       THEN /\ in_flight' = tasks
            /\ sent' = [sent EXCEPT !.count = @ + tasks, !.at = Elapsed]
            /\ lt_pc' = "final_gather"
       ELSE /\ UNCHANGED <<in_flight, sent>>
            /\ lt_pc' = "store"
    /\ UNCHANGED <<test_results, request, endpoint, now, test_result, request_idx,
                   expected_request_count, tasks, batch, lt_resp>>
    /\ UNCHANGED other_run
    /\ UNCHANGED engineVars
    /\ UNCHANGED routerVars

\* one of the gathered send_request coroutines finishes.  The requests of a
\* gather are sent together and finish in the order of their latencies; the
\* clock moves on to the moment the request finishes.
RequestDone ==
    /\ lt_pc \in {"gather", "final_gather"}
    /\ in_flight > 0
    /\ \E o \in EndpointOutcomes(endpoint) :
         /\ o.latency >= batch
         /\ test_result' = send_request(test_result, o)
         /\ now' = now + (o.latency - batch)
         /\ batch' = o.latency
         /\ sent' = [sent EXCEPT
                       !.longest = IF o.latency > @ THEN o.latency ELSE @]
    /\ in_flight' = in_flight - 1
    /\ UNCHANGED <<test_results, lt_pc, request, endpoint, request_idx,
                   expected_request_count, tasks, lt_resp>>
    /\ UNCHANGED other_run
    /\ UNCHANGED engineVars
    /\ UNCHANGED routerVars

\* lines 157-158, 165: gather returns when the slowest of its requests is done
GatherReturn ==
    /\ lt_pc \in {"gather", "final_gather"}
    /\ in_flight = 0
    /\ batch' = 0
    /\ tasks' = 0
    /\ lt_pc' = IF lt_pc = "gather" THEN "inner" ELSE "store"
    /\ UNCHANGED <<test_results, request, endpoint, now, test_result, request_idx,
                   expected_request_count, in_flight, sent, lt_resp>>
    /\ UNCHANGED other_run
    /\ UNCHANGED engineVars
    /\ UNCHANGED routerVars

\* lines 167-180
Store ==
    /\ lt_pc = "store"
    /\ LET result == [test_result EXCEPT !.end_time = now,
                                         !.request_count = request.total_requests]
       IN  /\ test_result' = result
           /\ test_results' = DictSet(test_results, TestKey(result), result)
           /\ lt_resp' = [op |-> "run", status |-> 200, test_id |-> TestKey(result),
                          results |-> to_dict(result), phase |-> "done"]
    /\ lt_pc' = "done"
    /\ UNCHANGED <<request, endpoint, now, request_idx, expected_request_count, tasks,
                   in_flight, batch, sent>>
    /\ UNCHANGED other_run
    /\ UNCHANGED engineVars
    /\ UNCHANGED routerVars

\* where the run is when another call is answered
Phase ==
    IF lt_pc = "idle" THEN "idle" ELSE IF lt_pc = "done" THEN "done" ELSE "running"

\* the ids asked for: the key of a run of container web started in second 0,
\* and a key no run has
TestIds == {<<"web", 0>>, <<"web", 7>>}

\* lines 212-219
get_test_results(test_id) ==
    IF ~HasKey(test_results, test_id)
    THEN lt_resp' = [op |-> "get", status |-> 404, test_id |-> test_id,
                     results |-> <<>>, phase |-> Phase]
    ELSE lt_resp' = [op |-> "get", status |-> 200, test_id |-> test_id,
                     results |-> to_dict(test_results[test_id]), phase |-> Phase]

GetResults ==
    /\ \E test_id \in TestIds : get_test_results(test_id)
    /\ UNCHANGED <<test_results, lt_pc, request, endpoint, now, test_result,
                   request_idx, expected_request_count, tasks, in_flight, batch, sent>>
    /\ UNCHANGED other_run
    /\ UNCHANGED engineVars
    /\ UNCHANGED routerVars

-----------------------------------------------------------------------------
(* The load tester on its own, against an endpoint of either kind *)

LoadStoreInit ==
    /\ test_results = <<>>
    /\ lt_pc = "idle"
    /\ request = NoLoadRequest
    /\ endpoint \in Endpoints
    /\ now = 0
    /\ test_result = NewResult(NoLoadRequest, NoTime)
    /\ request_idx = 0
    /\ expected_request_count = 0
    /\ tasks = 0
    /\ in_flight = 0
    /\ batch = 0
    /\ sent = [count |-> 0, longest |-> 0, at |-> NoTime]
    /\ lt_resp = NoLoadResponse
    /\ other_run = NoOtherRun

LoadNext ==
    \/ RunStart
    \/ LoopIterate
    \/ Resume
    \/ Sleep
    \/ LoopExit
    \/ RequestDone
    \/ GatherReturn
    \/ Store
    \/ GetResults

LoadInit == LoadStoreInit /\ EngineIdle /\ RouterIdle

LoadSpec == LoadInit /\ [][LoadNext]_vars

-----------------------------------------------------------------------------
(* Two run_load_test calls at once.  The handler is async and FastAPI runs *)
(* every call as its own coroutine over the one module-level dict          *)
(* test_results.  The second call is for the same container with           *)
(* total_requests 1: its expected_request_count stays 0 while elapsed is   *)
(* below duration, so it sends nothing, leaves its loop at the first check *)
(* after its duration and stores its result.  The two calls arrive at the  *)
(* same moment, in either order.                                           *)

OtherRequest == [container_name |-> "web", total_requests |-> 1, concurrency |-> 1,
                 duration |-> 1]

\* lines 100-143 of the second call
OtherRunStart ==
    /\ other_run.pc = "idle"
    /\ lt_pc = "idle" \/ (lt_pc = "loop" /\ Elapsed = 0)
    /\ other_run' = [pc |-> "running", result |-> NewResult(OtherRequest, now)]
    /\ UNCHANGED <<test_results, lt_pc, request, endpoint, now, test_result,
                   request_idx, expected_request_count, tasks, in_flight, batch, sent,
                   lt_resp>>
    /\ UNCHANGED engineVars
    /\ UNCHANGED routerVars

\* lines 145-180 of the second call, from the check of line 145 that finds its
\* duration over: the hundredth of its sleeps of 0.01 s has ended
OtherRunStore ==
    /\ other_run.pc = "running"
    /\ now - other_run.result.start_time = OtherRequest.duration * TicksPerSecond
    /\ LET result == [other_run.result EXCEPT
                         !.end_time = now,
                         !.request_count = OtherRequest.total_requests]
       IN  /\ other_run' = [pc |-> "done", result |-> result]
           /\ test_results' = DictSet(test_results, TestKey(result), result)
    /\ UNCHANGED <<lt_pc, request, endpoint, now, test_result, request_idx,
                   expected_request_count, tasks, in_flight, batch, sent, lt_resp>>
    /\ UNCHANGED engineVars
    /\ UNCHANGED routerVars

LoadPairNext ==
    \/ RunStart
    \/ LoopIterate
    \/ Resume
    \/ Sleep
    \/ LoopExit
    \/ RequestDone
    \/ GatherReturn
    \/ Store
    \/ GetResults
    \/ OtherRunStart
    \/ OtherRunStore

LoadPairSpec == LoadInit /\ [][LoadPairNext]_vars

-----------------------------------------------------------------------------
(* The policy handlers and run_autoscaler side by side.  The handlers      *)
(* write policies_db; the loop queries the scaling_policies table, which   *)
(* no code of the repository writes.  A policy is named by its id in both. *)

DefaultCreateRequest ==
    [policy_name |-> "web", container_id |-> ContainerIdOf(1),
     min_replicas |-> 1, max_replicas |-> 2, initial_replicas |-> 1,
     target_cpu |-> DefaultTargetCpu,
     cpu_up |-> DefaultCpuUp, cpu_down |-> DefaultCpuDown,
     target_memory |-> DefaultTargetMemory,
     mem_up |-> DefaultMemUp, mem_down |-> DefaultMemDown,
     check_interval_seconds |-> DefaultCheckInterval]

\* an update call that carries is_active and nothing else
ActiveOnly(active) ==
    [policy_name |-> None, is_active |-> Some(active),
     min_replicas |-> None, max_replicas |-> None,
     cpu_up |-> None, cpu_down |-> None, mem_up |-> None, mem_down |-> None,
     check_interval_seconds |-> None]

CreateDefault ==
    /\ create_scaling_policy(DefaultCreateRequest)
    /\ UNCHANGED engineVars
    /\ UNCHANGED loadVars

SetActive ==
    /\ \E policy_id \in 1..MaxPolicies, active \in BOOLEAN :
          update_scaling_policy(policy_id, ActiveOnly(active))
    /\ UNCHANGED engineVars
    /\ UNCHANGED loadVars

\* the table holds a row for each policy id with the column defaults and
\* max_replicas 2; the row of policy 1 is active or not, that of policy 2 is not
SystemTableInit ==
    /\ scaling_policies \in
         {f \in [PolicyIds -> UNION {PolicyRows(p) : p \in PolicyIds}] :
            /\ \A p \in PolicyIds :
                  /\ f[p] \in PolicyRows(p)
                  /\ f[p].min_replicas = 1
                  /\ f[p].max_replicas = 2
                  /\ f[p].cpu_scale_down_threshold = DefaultCpuDown
            /\ ~f[2].is_active}
    /\ containers = {[name |-> ContainerIdOf(p), created |-> p, running |-> TRUE] :
                       p \in PolicyIds}
    /\ scaling_events = <<>>
    /\ pc = "query"
    /\ policies = <<>>
    /\ idx = 1
    /\ session_ok = TRUE
    /\ last = NoTick
    /\ since_scale = [p \in PolicyIds |-> -1]
    /\ since_check = [p \in PolicyIds |-> -1]
    /\ changes = [p \in PolicyIds |-> 0]
    /\ nticks = 0

SystemNext ==
    \/ CreateDefault
    \/ SetActive
    \/ Start
    \/ Stop
    \/ LoopQuery
    \/ LoopCheck
    \/ LoopSleep
    \/ LoopCrash
    \/ LoopOuterSleep

SystemInit == SystemTableInit /\ RouterStoreInit /\ LoadIdle

SystemSpec == SystemInit /\ [][SystemNext]_vars

\* run_autoscaler is a coroutine of the event loop: once its sleep is over or
\* its call has returned it is resumed
LoopFairness ==
    /\ WF_vars(LoopQuery)
    /\ WF_vars(LoopCheck)
    /\ WF_vars(LoopSleep)
    /\ WF_vars(LoopOuterSleep)

SystemFairSpec == SystemInit /\ [][SystemNext]_vars /\ LoopFairness

\* run_autoscaler on its own, as the event loop runs it: a step of the loop that
\* can be taken is taken.  No fairness is asked of LoopCrash: the database may
\* never fail.
EngineFairSpec == EngineInit /\ [][EngineNext]_vars /\ LoopFairness

-----------------------------------------------------------------------------
(* Properties of check_and_scale and run_autoscaler (EngineSpec) *)

Ticked == last.policy_id # 0

TickedPolicy == scaling_policies[last.policy_id]

LastEvent == scaling_events[Len(scaling_events)]

EventsOf(p) == {i \in 1..Len(scaling_events) : scaling_events[i].policy_id = p}

\* C1: a tick never attempts or effects a scale-up when the replica count it
\* observed is >= max_replicas, nor a scale-down when that count is
\* <= min_replicas; so a tick of a policy whose count is inside
\* [min_replicas, max_replicas] leaves the count inside that range.
C1_ReplicaBounds ==
    Ticked =>
      /\ last.decision = "scale_up" => ~(last.replicas >= TickedPolicy.max_replicas)
      /\ last.decision = "scale_down" => ~(last.replicas <= TickedPolicy.min_replicas)
      /\ last.after > last.before => last.before < TickedPolicy.max_replicas
      /\ last.after < last.before => last.before > TickedPolicy.min_replicas
      /\ (TickedPolicy.min_replicas <= last.before
            /\ last.before <= TickedPolicy.max_replicas)
         => (TickedPolicy.min_replicas <= last.after
               /\ last.after <= TickedPolicy.max_replicas)

\* a tick at the maximum under breaching metrics did nothing
C1_Witness ==
    /\ Ticked
    /\ last.polled
    /\ last.replicas = TickedPolicy.max_replicas
    /\ last.cpu > TickedPolicy.cpu_scale_up_threshold
    /\ last.decision = "none"
    /\ last.after = last.before

\* C2: a tick less than the cooldown period after the policy's last executed
\* scaling action decides none; so no scaling event of a policy is recorded less
\* than the cooldown period after its previous scaling action.
C2_CooldownRespected ==
    (Ticked /\ last.recorded /\ Cardinality(EventsOf(last.policy_id)) >= 2) =>
        last.since >= CooldownPeriod

\* C3: a polled tick decides scale_up exactly when (cpu > cpu_scale_up_threshold
\* or memory > memory_scale_up_threshold) and replicas < max_replicas; the
\* recorded reason is "cpu" whenever cpu breached and "memory" only when memory
\* alone breached.
C3_ScaleUpRule ==
    (Ticked /\ last.polled) =>
      /\ (last.decision = "scale_up") <=>
           (/\ \/ last.cpu > TickedPolicy.cpu_scale_up_threshold
               \/ last.memory > TickedPolicy.memory_scale_up_threshold
            /\ last.replicas < TickedPolicy.max_replicas)
      /\ (last.decision = "scale_up" /\ last.recorded) =>
           /\ LastEvent.event_type = "scale_up"
           /\ LastEvent.policy_id = last.policy_id
           /\ last.cpu > TickedPolicy.cpu_scale_up_threshold
                => LastEvent.reason = "cpu"
           /\ LastEvent.reason = "memory" <=>
                (/\ last.memory > TickedPolicy.memory_scale_up_threshold
                 /\ ~(last.cpu > TickedPolicy.cpu_scale_up_threshold))
           /\ LastEvent.reason \in {"cpu", "memory"}

\* both metrics breached and the event says "cpu"
C3_Witness ==
    /\ Ticked
    /\ last.decision = "scale_up"
    /\ last.recorded
    /\ last.cpu > TickedPolicy.cpu_scale_up_threshold
    /\ last.memory > TickedPolicy.memory_scale_up_threshold
    /\ LastEvent.reason = "cpu"

\* memory alone breached and the event says "memory"
C3_WitnessMemory ==
    /\ Ticked
    /\ last.decision = "scale_up"
    /\ last.recorded
    /\ ~(last.cpu > TickedPolicy.cpu_scale_up_threshold)
    /\ LastEvent.reason = "memory"

BothLow ==
    /\ last.cpu < TickedPolicy.cpu_scale_down_threshold
    /\ last.memory < TickedPolicy.memory_scale_down_threshold

UpBreached ==
    \/ last.cpu > TickedPolicy.cpu_scale_up_threshold
    \/ last.memory > TickedPolicy.memory_scale_up_threshold

Ordered(pol) ==
    /\ pol.cpu_scale_down_threshold < pol.cpu_scale_up_threshold
    /\ pol.memory_scale_down_threshold < pol.memory_scale_up_threshold

C8_OneReplicaPerTick ==
    /\ Ticked => (last.after - last.before \in {-1, 0, 1})
    /\ \A i \in 1..Len(scaling_events) :
         /\ scaling_events[i].event_type = "scale_up" =>
              scaling_events[i].replicas_after = scaling_events[i].replicas_before + 1
         /\ scaling_events[i].event_type = "scale_down" =>
              scaling_events[i].replicas_after = scaling_events[i].replicas_before - 1
         /\ scaling_events[i].event_type \in {"scale_up", "scale_down"}
    /\ (Ticked /\ last.recorded) =>
         /\ LastEvent.replicas_before = last.replicas
         /\ LastEvent.replicas_before = last.before

\* a tick removed one replica and recorded the scale_down
C8_Witness ==
    /\ Ticked
    /\ last.recorded
    /\ last.decision = "scale_down"
    /\ last.after = last.before - 1
    /\ LastEvent.event_type = "scale_down"

\* C9: for every policy the number of recorded events equals the number of
\* ticks that changed the running replica set of that policy.
C9_EventPerChange ==
    \A p \in PolicyIds : Cardinality(EventsOf(p)) = changes[p]

\* C10: a tick whose metrics poll or replica call fails records no event,
\* returns to run_autoscaler normally (the loop goes on to its sleep), keeps no
\* mark of the failure (the time since the last scaling action is not reset), and
\* leaves the policy in the loop's list, unchanged, for its next evaluation.
C10_FailedTickNoOp ==
    [][(/\ nticks' = nticks + 1
        /\ scaling_policies[last'.policy_id].is_active
        /\ (~last'.polled \/ last'.runtime \in {"failed", "partial"}))
       => (/\ scaling_events' = scaling_events
           /\ ~last'.recorded
           /\ pc' = "sleep"
           /\ since_scale' = since_scale
           /\ policies'[idx'] = last'.policy_id
           /\ scaling_policies' = scaling_policies)]_vars

\* the replica call of a scale-up failed and the loop is at its sleep
C10_Witness ==
    /\ Ticked
    /\ last.decision = "scale_up"
    /\ last.runtime = "failed"
    /\ ~last.recorded
    /\ pc = "sleep"

\* the metrics poll failed
C10_WitnessPoll ==
    /\ Ticked
    /\ ~last.polled
    /\ pc = "sleep"

C20_EventAfterRuntimeCall ==
    [][(scaling_events' # scaling_events) =>
         /\ Len(scaling_events') = Len(scaling_events) + 1
         /\ SubSeq(scaling_events', 1, Len(scaling_events)) = scaling_events
         /\ last'.runtime = "ok"
         /\ last'.recorded
         /\ LET e == scaling_events'[Len(scaling_events')]
                pol == scaling_policies[e.policy_id]
            IN  /\ e.policy_id = last'.policy_id
                /\ e.event_type = "scale_up" =>
                     \E c \in containers' \ containers :
                        c.running /\ c.name = ReplicaName(pol, e.replicas_before)
                /\ e.event_type = "scale_down" =>
                     \E c \in containers \ containers' :
                        /\ c.running
                        /\ Contains(c.name, pol.container_id)
                        /\ ~\E d \in containers' : d.name = c.name]_vars

\* a scale_down was recorded after stop and remove returned: the daemon runs
\* exactly the number of replicas the event gives as replicas_after
C20_Witness ==
    /\ Ticked
    /\ last.recorded
    /\ last.runtime = "ok"
    /\ LastEvent.event_type = "scale_down"
    /\ CurrentReplicas(TickedPolicy, containers) = LastEvent.replicas_after
    /\ Len(scaling_events) >= 2

\* C23: the time between two consecutive checks of an active policy is set by
\* that policy's own check_interval_seconds (and the loop's fixed pause), and
\* is no longer when other policies are active.
C23_OwnInterval ==
    (Ticked /\ last.gap # -1) =>
        last.gap <= TickedPolicy.check_interval_seconds + OuterSleepSeconds

\* C21: every event in the table has event_type scale_up or scale_down and
\* reason cpu or memory.
C21_EventVocabulary ==
    \A i \in 1..Len(scaling_events) :
        /\ scaling_events[i].event_type \in {"scale_up", "scale_down"}
        /\ scaling_events[i].reason \in {"cpu", "memory"}

\* the containers of a policy's own workload: the one named by container_id
\* and the replicas check_and_scale names after it
OwnWorkload(pol, cs) ==
    {c \in cs : \/ c.name = pol.container_id
                \/ \E k \in 0..Cardinality(cs) : c.name = ReplicaName(pol, k)}

\* C24: a call for a policy counts only the running containers of that
\* policy's own workload, and every container that leaves the daemon's list
\* in the call belongs to that workload, also when another policy's
\* container_id contains this one's.
C24_OwnWorkloadOnly ==
    [][(nticks' = nticks + 1 /\ last'.polled) =>
         LET pol == scaling_policies[last'.policy_id]
         IN  /\ last'.replicas
                  = Cardinality({c \in OwnWorkload(pol, containers) : c.running})
             /\ \A c \in containers :
                   (~\E d \in containers' : d.name = c.name /\ d.running = c.running)
                      => c \in OwnWorkload(pol, containers)]_vars

-----------------------------------------------------------------------------
(* Properties of the policy store (RouterSpec) *)

\* C5: every stored policy has cpu_scale_down_threshold < cpu_scale_up_threshold
\* and memory_scale_down_threshold < memory_scale_up_threshold.
C5_StoredThresholdsOrdered ==
    \A k \in DOMAIN policies_db :
        /\ policies_db[k].cpu_scale_down_threshold
             < policies_db[k].cpu_scale_up_threshold
        /\ policies_db[k].memory_scale_down_threshold
             < policies_db[k].memory_scale_up_threshold

\* C6: a create call whose cpu or memory scale-down threshold is >= the
\* scale-up threshold is answered 400 and leaves policies_db as it was.
C6_CreateRejectsUnordered ==
    [][(/\ resp'.op = "create"
        /\ \/ resp'.req.cpu_down >= resp'.req.cpu_up
           \/ resp'.req.mem_down >= resp'.req.mem_up)
       => (resp'.status = 400 /\ policies_db' = policies_db)]_vars

\* a create with unordered thresholds was refused while a policy was stored
C6_Witness ==
    /\ resp.op = "create"
    /\ resp.status = 400
    /\ resp.req.mem_down >= resp.req.mem_up
    /\ DOMAIN policies_db # {}

\* C7: every stored policy has 1 <= min_replicas <= max_replicas.
C7_StoredReplicaBounds ==
    \A k \in DOMAIN policies_db :
        /\ 1 <= policies_db[k].min_replicas
        /\ policies_db[k].min_replicas <= policies_db[k].max_replicas

\* C29: a create call that is answered 200 stores its policy under an id that
\* was not in policies_db: the store grows by one policy and every policy that
\* was stored is still stored, unaltered.
C29_CreateFreshId ==
    [][(/\ resp'.op = "create"
        /\ resp'.status = 200
        /\ (resp' # resp \/ policies_db' # policies_db))
       => /\ ~HasKey(policies_db, resp'.policy_id)
          /\ DictLen(policies_db') = DictLen(policies_db) + 1
          /\ \A k \in DOMAIN policies_db :
                HasKey(policies_db', k) /\ policies_db'[k] = policies_db[k]]_vars

-----------------------------------------------------------------------------
(* Properties of run_load_test and get_test_results (LoadSpec) *)

BreakdownTotal(b) ==
    b["timeouts"] + b["connection_errors"] + b["server_errors"] + b["client_errors"]

\* C13: at every instant of a run the number of requests sent and not yet
\* completed is at most the run's concurrency; requests are in flight only
\* while a gather is awaited, and no more coroutines than concurrency are ever
\* waiting to be gathered.
C13_InFlightBounded ==
    /\ in_flight <= request.concurrency
    /\ tasks <= request.concurrency
    /\ in_flight > 0 => lt_pc \in {"gather", "final_gather"}

\* a gather has sent as many requests as the concurrency allows, none is done
\* yet, and more requests remain to be issued
C13_Witness ==
    /\ lt_pc = "gather"
    /\ request.concurrency = 2
    /\ in_flight = request.concurrency
    /\ request_idx < request.total_requests

\* C14: at every instant success_count + error_count + in-flight equals the
\* number of requests sent, and the breakdown's counts add up to error_count;
\* at the end of a run success_count plus the breakdown's counts equals the
\* number of requests sent, which is the number issued and at most
\* total_requests; the stored and returned dicts say the same.
C14_AggregateCorrect ==
    /\ test_result.success_count + test_result.error_count + in_flight = sent.count
    /\ BreakdownTotal(error_breakdown(test_result)) = test_result.error_count
    /\ lt_pc = "done" =>
         /\ test_result.success_count
              + BreakdownTotal(error_breakdown(test_result)) = sent.count
         /\ sent.count = request_idx
         /\ request_idx <= request.total_requests
         /\ HasKey(test_results, TestKey(test_result))
         /\ LET d == to_dict(test_results[TestKey(test_result)])
            IN  d.success_count + BreakdownTotal(d.error_breakdown) = sent.count

\* a run ended with a success, a timeout and an error of the fallback kind
C14_Witness ==
    /\ lt_pc = "done"
    /\ test_result.success_count >= 1
    /\ error_breakdown(test_result)["timeouts"] >= 1
    /\ error_breakdown(test_result)["client_errors"] >= 1

\* C15: a run ends no later than duration plus the latency of one request (the
\* longest the run saw), with one scheduling sleep of slack.
C15_DeadlineCeiling ==
    lt_pc = "done" =>
        to_dict(test_result).total_time
            <= request.duration * TicksPerSecond + sent.longest + SleepTicks

\* C16: the run of the scenario (50 requests, 5 s, concurrency 10) against an
\* endpoint on which every request times out ends with success_count 0 and 50
\* timeouts out of 50 requests sent.
C16_ScenarioAllTimeouts ==
    (lt_pc = "done" /\ request = Scenario /\ endpoint = "always_timeout") =>
        /\ test_result.success_count = 0
        /\ error_breakdown(test_result)["timeouts"] = Scenario.total_requests
        /\ sent.count = Scenario.total_requests

\* C17: a request answered with a 5xx status is counted as a server error and
\* not as a success, and a request that timed out is counted as a timeout and as
\* nothing else.
C17_ExactlyOneKind ==
    LET b == error_breakdown(test_result)
        answered5xx == {i \in 1..Len(test_result.responses) :
                          test_result.responses[i].status >= 500}
        timedOut == {i \in 1..Len(test_result.errors) :
                       test_result.errors[i] = "Timeout"}
    IN  /\ test_result.success_count
             = Len(test_result.responses) - Cardinality(answered5xx)
        /\ b["server_errors"] >= Cardinality(answered5xx)
        /\ b["timeouts"] = Cardinality(timedOut)

\* C18: get_test_results answers NotFound (404) for an id no run has, answers
\* NotReady (neither 404 nor 200) for the id of a run that has started and has
\* not completed, and answers 200 with the aggregate only for a completed run.
C18_GetResultStatuses ==
    lt_resp.op = "get" =>
      /\ (lt_resp.phase = "idle" \/ lt_resp.test_id # TestKey(test_result))
            => lt_resp.status = 404
      /\ (lt_resp.phase = "running" /\ lt_resp.test_id = TestKey(test_result))
            => lt_resp.status \notin {200, 404}
      /\ lt_resp.status = 200 =>
            /\ lt_resp.phase = "done"
            /\ lt_resp.results = to_dict(test_result)

\* the end of the run's duration, on the clock
Deadline == test_result.start_time + request.duration * TicksPerSecond

\* the number of requests the schedule asks for at time t of the clock
DueAt(t) ==
    ((t - test_result.start_time) * request.total_requests)
        \div (request.duration * TicksPerSecond)

\* C25: requests are admitted one by one: while fewer than concurrency
\* requests are in flight, the deadline has not passed and fewer requests are
\* issued than the schedule asks for, the run does not wait for the requests
\* that are still in flight; so no such moment lies inside a wait of the run.
C25_PermitPerRequest ==
    [][(/\ lt_pc = "gather"
        /\ 0 < in_flight
        /\ in_flight < request.concurrency
        /\ now < Deadline
        /\ now' > now)
       => LET t == IF now' - 1 < Deadline - 1 THEN now' - 1 ELSE Deadline - 1
          IN  ~(request_idx < request.total_requests /\ request_idx < DueAt(t))]_vars

\* C26: no request is sent once elapsed time has reached the duration.
C26_NoSendAfterDeadline ==
    sent.count > 0 => sent.at < request.duration * TicksPerSecond

\* C27: at every point of a run the number of requests issued so far is at
\* most floor(elapsed / duration * total_requests), and no more requests are
\* sent than issued.
C27_IssuedWithinSchedule ==
    lt_pc # "idle" =>
        /\ request_idx <= DueAt(now)
        /\ sent.count <= request_idx

\* the run has issued all the schedule asks for at this time, more than one
\* request, and is about to sleep
C27_Witness ==
    /\ lt_pc = "sleep"
    /\ request_idx >= 2
    /\ request_idx = DueAt(now)
    /\ Elapsed < request.duration * TicksPerSecond

\* C28: once a record is in test_results under an id, no later step removes
\* it or puts another record under that id, runs for the same container
\* started in the same second included.
C28_RecordImmutable ==
    [][\A k \in DOMAIN test_results :
          HasKey(test_results', k) /\ test_results'[k] = test_results[k]]_vars

\* C30: a run in which every request completed at once has sent exactly
\* total_requests requests when it ends, so that success_count + error_count
\* equals total_requests in its result.
C30_AllDispatched ==
    (lt_pc = "done" /\ sent.longest = 0) =>
        /\ sent.count = request.total_requests
        /\ lt_resp.op = "run" =>
              lt_resp.results.success_count
                + BreakdownTotal(lt_resp.results.error_breakdown)
                  = request.total_requests

-----------------------------------------------------------------------------
(* Properties of the handlers and the loop together (SystemSpec) *)

RouterActive(p) == HasKey(policies_db, p) /\ policies_db[p].is_active

\* C11: once stop_autoscaling has returned for a policy, and until another
\* handler is called, no call of check_and_scale for that policy changes its
\* replicas, and no event of that policy is recorded.
C11_StopEndsLoop ==
    [][(resp.op = "stop" /\ resp.status = 200 /\ resp' = resp) =>
         /\ (nticks' = nticks + 1 /\ last'.policy_id = resp.policy_id) =>
               last'.after = last'.before
         /\ Len(scaling_events') > Len(scaling_events) =>
               scaling_events'[Len(scaling_events')].policy_id # resp.policy_id]_vars

\* C12: whenever a policy is active in the store the handlers write, the loop
\* eventually polls and evaluates it, unless it is deactivated first, the loop
\* has left run_autoscaler through an exception, or the horizon of MaxTicks
\* calls is reached.
C12_ActiveEventuallyEvaluated ==
    \A p \in PolicyIds :
       [](RouterActive(p) =>
             <>(\/ last.policy_id = p /\ last.polled
                \/ ~RouterActive(p)
                \/ pc = "crashed"
                \/ nticks = MaxTicks))

-----------------------------------------------------------------------------
(* Properties of run_autoscaler under fair scheduling (EngineFairSpec) *)

\* a call the loop made for an active policy met a failing collaborator (the
\* metrics poll, a runtime call or the commit of the event), or the loop's own
\* query or session failed
FailedCall ==
    \/ pc = "crashed"
    \/ /\ Ticked
       /\ TickedPolicy.is_active
       /\ \/ ~last.polled
          \/ last.runtime \in {"failed", "partial"}
          \/ last.runtime = "ok" /\ ~last.recorded

\* C22: a failure in one pass does not end run_autoscaler: after a call or a
\* query that failed, the loop makes a later check_and_scale call (as long as
\* the bound on calls leaves room for one).
C22_LoopSurvivesFailure ==
    \A k \in 0..(MaxTicks - 1) :
        []((nticks = k /\ FailedCall) => <>(nticks > k))

====
